---- MODULE Spec2Model ----
(***************************************************************************)
(* Thruster (src/main.ts): the World scene collection, the Shape render    *)
(* point cache and the Craft flight dynamics, as a state machine.          *)
(*                                                                         *)
(* Numbers.  The program computes in floating point.  Here every scalar is *)
(* a fixed-point integer counting 1/One units (One = 10000, so 0.02 is     *)
(* 200 and 76 is 760000); products and quotients round to the nearest      *)
(* unit.  Squared magnitudes are carried exactly, at scale One*One.        *)
(* A rotation is a whole number of 1.5 degree steps (the only rotations    *)
(* the program builds are 1.5 degrees, its negation, 0 and pi), with sines *)
(* read from a table.                                                      *)
(***************************************************************************)
EXTENDS Integers, Sequences, FiniteSets, TLC

VARIABLES
    shapes,              \* World.shapes: sequence of shape identities
    sceneIndex,          \* Shape.sceneIndex of every shape object
    calls,               \* the last two World.add / World.remove calls, each with the world before it
    worldPos,            \* Craft: Shape.worldPos
    vel,                 \* Craft.vel
    thrust,              \* Craft.thrust
    heading,             \* Craft.heading
    xform,               \* Craft: Shape.xform
    thrusting,           \* Craft.thrusting
    beganThrusting,      \* Craft.beganThrusting
    stoppedThrusting,    \* Craft.stoppedThrusting
    renderPoints,        \* Craft: Shape.renderPoints
    controller,          \* button levels polled by the last update
    startEffectCalls,    \* number of effectSprite.startEffect calls so far
    clearParticlesCalls, \* number of effects.clearParticles calls so far
    zeroNormalized,      \* the last operation called normalize() on a zero-magnitude vector
    ticks,               \* number of Craft.update calls run
    steerTicks,          \* how many of them polled left pressed, and how many right but not left
    frame,               \* the scheduler callback in progress and its loop over World.shapes
    pc,                  \* position of the caller of a single method: "call" or "done"
    arg,                 \* arguments of that method call
    ret                  \* value it returned

vars == <<shapes, sceneIndex, calls, worldPos, vel, thrust, heading, xform, thrusting,
          beganThrusting, stoppedThrusting, renderPoints, controller,
          startEffectCalls, clearParticlesCalls, zeroNormalized, ticks, steerTicks, frame,
          pc, arg, ret>>

worldVars == <<shapes, sceneIndex, calls>>

craftVars == <<worldPos, vel, thrust, heading, xform, thrusting, beganThrusting,
               stoppedThrusting, renderPoints, controller, startEffectCalls,
               clearParticlesCalls, ticks, steerTicks>>

callVars == <<pc, arg, ret, frame>>

----------------------------------------------------------------------------
(* Fixed-point scalars *)

One == 10000

Abs(n) == IF n < 0 THEN -n ELSE n

\* a * b / One, rounded to the nearest unit (half away from zero); |b| stays below 200000
FMul(a, b) ==
    LET p == Abs(a)
        q == Abs(b)
        m == (p \div One) * q + ((p % One) * q + One \div 2) \div One
    IN  IF (a < 0) # (b < 0) THEN -m ELSE m

\* a * One / b for b > 0, rounded to the nearest unit (half away from zero)
FDiv(a, b) ==
    LET m == (Abs(a) * One + b \div 2) \div b
    IN  IF a < 0 THEN -m ELSE m

RECURSIVE SqrtSearch(_, _, _)
SqrtSearch(n, lo, hi) ==
    IF lo >= hi THEN lo
    ELSE LET mid == (lo + hi + 1) \div 2
         IN  IF mid * mid <= n THEN SqrtSearch(n, mid, hi) ELSE SqrtSearch(n, lo, mid - 1)

\* the square root of n, rounded to the nearest integer
Sqrt(n) ==
    LET r == SqrtSearch(n, 0, 46340)
    IN  IF n - r * r > r THEN r + 1 ELSE r

----------------------------------------------------------------------------
(* Math2d.Vector *)

Vec(x, y) == [x |-> x, y |-> y]

Zero == Vec(0, 0)

add(a, b) == Vec(a.x + b.x, a.y + b.y)

sub(a, b) == Vec(a.x - b.x, a.y - b.y)

scale(v, s) == Vec(FMul(v.x, s), FMul(v.y, s))

\* at scale One * One
magSquared(v) == v.x * v.x + v.y * v.y

\* in place in the program; a zero-magnitude vector is left as it is
normalize(v) ==
    LET mag == Sqrt(magSquared(v))
    IN  IF mag = 0 THEN v ELSE Vec(FDiv(v.x, mag), FDiv(v.y, mag))

----------------------------------------------------------------------------
(* Math2d.Matrix: a rotation by rot steps of 1.5 degrees, then a translation t *)

StepsPerTurn == 240

SinTab ==
    << 0, 262, 523, 785, 1045, 1305, 1564, 1822, 2079, 2334, 2588, 2840, 3090, 3338,
       3584, 3827, 4067, 4305, 4540, 4772, 5000, 5225, 5446, 5664, 5878, 6088, 6293,
       6494, 6691, 6884, 7071, 7254, 7431, 7604, 7771, 7934, 8090, 8241, 8387, 8526,
       8660, 8788, 8910, 9026, 9135, 9239, 9336, 9426, 9511, 9588, 9659, 9724, 9781,
       9833, 9877, 9914, 9945, 9969, 9986, 9997, 10000 >>

\* One * sin(k * 1.5 degrees)
Sin(k) ==
    LET j == k % StepsPerTurn
        q == StepsPerTurn \div 4
    IN  IF j <= q THEN SinTab[j + 1]
        ELSE IF j <= 2 * q THEN SinTab[2 * q - j + 1]
        ELSE IF j <= 3 * q THEN -SinTab[j - 2 * q + 1]
        ELSE -SinTab[4 * q - j + 1]

Cos(k) == Sin(k + StepsPerTurn \div 4)

identity == [rot |-> 0, t |-> Zero]

createRotationMatrix(k) == [rot |-> k % StepsPerTurn, t |-> Zero]

createRotationAndTranslationMatrix(k, v) == [rot |-> k % StepsPerTurn, t |-> v]

rotate(k, v) ==
    Vec(FMul(v.x, Cos(k)) - FMul(v.y, Sin(k)), FMul(v.x, Sin(k)) + FMul(v.y, Cos(k)))

apply(m, v) == add(rotate(m.rot, v), m.t)

\* apply(mul(m, n), v) = apply(m, apply(n, v)); the receiver's translation is kept
mul(m, n) == [rot |-> (m.rot + n.rot) % StepsPerTurn, t |-> add(rotate(m.rot, n.t), m.t)]

----------------------------------------------------------------------------
(* World constants (constructor, lines 6-12) and Craft constants (lines 93-115) *)

GravityY == -200

gravity == Vec(0, GravityY)

HalfTurn == 120

ScreenCenterX == 800000

ScreenCenterY == 600000

toScreen == createRotationAndTranslationMatrix(HalfTurn, Vec(ScreenCenterX, ScreenCenterY))

points == << Vec(0, 8 * One), Vec(4 * One, 0), Vec(0, -2 * One), Vec(-4 * One, 0) >>

maxDownSpeed == -5000

maxAirSpeed == 8000

maxAirSpeedSq == maxAirSpeed * maxAirSpeed

ThrustScale == 800

ThrustDecay == 6000

BoundX == 760000

BoundY == 560000

----------------------------------------------------------------------------
(* Craft.calcVelocity and Craft.bounceOffSides *)

\* calcVelocity with the cap's normalize() lost: the over-speed vector is only scaled
calcVelocityUnnormalized(v, th) ==
    LET newVel == add(v, add(th, gravity))
        clamped == IF newVel.y < maxDownSpeed THEN [newVel EXCEPT !.y = maxDownSpeed] ELSE newVel
    IN  IF magSquared(clamped) > maxAirSpeedSq THEN scale(clamped, maxAirSpeed) ELSE clamped

\* calcVelocity with the Y clamp of lines 121-123 lost
calcVelocityUnclamped(v, th) ==
    LET newVel == add(v, add(th, gravity))
    IN  IF magSquared(newVel) > maxAirSpeedSq
        THEN scale(normalize(newVel), maxAirSpeed)
        ELSE newVel

calcVelocity(v, th) ==
    LET accel  == add(th, gravity)
        newVel == add(v, accel)
        clamped == IF newVel.y < maxDownSpeed THEN [newVel EXCEPT !.y = maxDownSpeed] ELSE newVel
    IN  IF magSquared(clamped) > maxAirSpeedSq
        THEN scale(normalize(clamped), maxAirSpeed)
        ELSE clamped

\* rawImpulse with the sign of the X impulse wrong: it pushes further out
rawImpulseOutwardX(pos, v) ==
    LET maybePos == add(pos, v)
        ix == IF maybePos.x > BoundX THEN maxAirSpeed
              ELSE IF maybePos.x < -BoundX THEN -maxAirSpeed ELSE 0
        iy == IF maybePos.y > BoundY THEN -maxAirSpeed
              ELSE IF maybePos.y < -BoundY THEN maxAirSpeed ELSE 0
    IN  Vec(ix, iy)

\* rawImpulse with the Y tests of lines 141 and 143 made against the X bound
rawImpulseWideY(pos, v) ==
    LET maybePos == add(pos, v)
        ix == IF maybePos.x > BoundX THEN -maxAirSpeed
              ELSE IF maybePos.x < -BoundX THEN maxAirSpeed ELSE 0
        iy == IF maybePos.y > BoundX THEN -maxAirSpeed
              ELSE IF maybePos.y < -BoundX THEN maxAirSpeed ELSE 0
    IN  Vec(ix, iy)

\* the impulse as set by lines 135-145, before normalize() is called on it
rawImpulse(pos, v) ==
    LET maybePos == add(pos, v)
        ix == IF maybePos.x > BoundX THEN -maxAirSpeed
              ELSE IF maybePos.x < -BoundX THEN maxAirSpeed ELSE 0
        iy == IF maybePos.y > BoundY THEN -maxAirSpeed
              ELSE IF maybePos.y < -BoundY THEN maxAirSpeed ELSE 0
    IN  Vec(ix, iy)

\* bounceOffSides with lines 146-147 lost: maxAirSpeed on each overflowing axis
bounceOffSidesPerAxis(pos, v) == rawImpulse(pos, v)

bounceOffSides(pos, v) == scale(normalize(rawImpulse(pos, v)), maxAirSpeed)

\* line 146 calls normalize() whatever the impulse is: TRUE when it is the zero vector
bounceNormalizesZero(pos, v) == magSquared(rawImpulse(pos, v)) = 0

----------------------------------------------------------------------------
(* The Craft object as a record, and its methods as record transformers *)

self ==
    [worldPos |-> worldPos, vel |-> vel, thrust |-> thrust, heading |-> heading,
     xform |-> xform, thrusting |-> thrusting, beganThrusting |-> beganThrusting,
     stoppedThrusting |-> stoppedThrusting, renderPoints |-> renderPoints,
     startEffectCalls |-> startEffectCalls, clearParticlesCalls |-> clearParticlesCalls,
     zeroNormalized |-> zeroNormalized]

\* new Craft(): Shape constructor (lines 45-50), then Craft constructor (lines 93-115)
newCraft ==
    [worldPos |-> Zero, vel |-> Zero, thrust |-> Zero, heading |-> Vec(0, One),
     xform |-> identity, thrusting |-> FALSE, beganThrusting |-> FALSE,
     stoppedThrusting |-> FALSE, renderPoints |-> << >>,
     startEffectCalls |-> 0, clearParticlesCalls |-> 0, zeroNormalized |-> FALSE]

\* Shape.update: the loop runs i = 0..3
shapeUpdate(c) ==
    [c EXCEPT !.renderPoints =
        [i \in 1..4 |-> apply(toScreen, add(apply(c.xform, points[i]), c.worldPos))]]

\* applyThrust with the guard of line 181 lost: the flag is set on every pressed frame
applyThrustLevelTriggered(c) ==
    [c EXCEPT !.beganThrusting = TRUE,
              !.thrust = scale(c.heading, ThrustScale),
              !.thrusting = TRUE]

applyThrust(c) ==
    [c EXCEPT !.beganThrusting = IF ~c.thrusting THEN TRUE ELSE @,
              !.thrust = scale(c.heading, ThrustScale),
              !.thrusting = TRUE]

\* releaseThrust decaying from the full thrust along the heading, not from this.thrust
releaseThrustFromHeading(c) ==
    [c EXCEPT !.stoppedThrusting = IF c.thrusting THEN TRUE ELSE @,
              !.thrust = scale(scale(c.heading, ThrustScale), ThrustDecay),
              !.thrusting = FALSE]

releaseThrust(c) ==
    [c EXCEPT !.stoppedThrusting = IF c.thrusting THEN TRUE ELSE @,
              !.thrust = scale(c.thrust, ThrustDecay),
              !.thrusting = FALSE]

\* handleInput with the branches of lines 163-167 swapped
handleInputInverted(c, in) ==
    LET d    == IF in.A THEN releaseThrust(c) ELSE applyThrust(c)
        sign == IF in.left THEN -1 ELSE IF in.right THEN 1 ELSE 0
    IN  [d EXCEPT !.xform = mul(d.xform, createRotationMatrix(sign))]

\* handleInput steering first and thrusting along the heading of the turned transform
handleInputSteerFirst(c, in) ==
    LET sign == IF in.left THEN -1 ELSE IF in.right THEN 1 ELSE 0
        xf   == mul(c.xform, createRotationMatrix(sign))
        e    == [c EXCEPT !.xform = xf, !.heading = apply(xf, Vec(0, One))]
    IN  IF in.A THEN applyThrust(e) ELSE releaseThrust(e)

\* handleInput testing controller.right before controller.left
handleInputRightFirst(c, in) ==
    LET d    == IF in.A THEN applyThrust(c) ELSE releaseThrust(c)
        sign == IF in.right THEN 1 ELSE IF in.left THEN -1 ELSE 0
    IN  [d EXCEPT !.xform = mul(d.xform, createRotationMatrix(sign))]

\* in: the levels of controller.A, controller.left and controller.right
handleInput(c, in) ==
    LET d    == IF in.A THEN applyThrust(c) ELSE releaseThrust(c)
        sign == IF in.left THEN -1 ELSE IF in.right THEN 1 ELSE 0
    IN  [d EXCEPT !.xform = mul(d.xform, createRotationMatrix(sign))]

updateEffects(c) ==
    [c EXCEPT !.startEffectCalls = IF c.beganThrusting THEN @ + 1 ELSE @,
              !.clearParticlesCalls =
                  IF ~c.beganThrusting /\ c.stoppedThrusting THEN @ + 1 ELSE @,
              !.beganThrusting = FALSE,
              !.stoppedThrusting = FALSE]

\* Craft.update with the heading taken from the transform as it was before handleInput
craftUpdateStaleHeading(c, in) ==
    LET c1      == shapeUpdate(c)
        c2      == handleInput(c1, in)
        newVel  == calcVelocity(c2.vel, c2.thrust)
        impulse == bounceOffSides(c2.worldPos, newVel)
        newVel2 == add(newVel, impulse)
        pos     == add(c2.worldPos, newVel2)
        c3      == updateEffects(c2)
    IN  [c3 EXCEPT !.vel = newVel2,
                   !.worldPos = pos,
                   !.heading = apply(c1.xform, Vec(0, One)),
                   !.zeroNormalized = bounceNormalizesZero(c2.worldPos, newVel)]

\* Craft.update with super.update() moved to the end: the cache follows the committed pose
craftUpdateRefreshLast(c, in) ==
    LET c2      == handleInput(c, in)
        newVel  == calcVelocity(c2.vel, c2.thrust)
        impulse == bounceOffSides(c2.worldPos, newVel)
        newVel2 == add(newVel, impulse)
        pos     == add(c2.worldPos, newVel2)
        c3      == updateEffects(c2)
    IN  shapeUpdate([c3 EXCEPT !.vel = newVel2,
                               !.worldPos = pos,
                               !.heading = apply(c3.xform, Vec(0, One)),
                               !.zeroNormalized = bounceNormalizesZero(c2.worldPos, newVel)])

\* Craft.update
craftUpdate(c, in) ==
    LET c1      == shapeUpdate(c)
        c2      == handleInput(c1, in)
        newVel  == calcVelocity(c2.vel, c2.thrust)
        impulse == bounceOffSides(c2.worldPos, newVel)
        newVel2 == add(newVel, impulse)
        pos     == add(c2.worldPos, newVel2)
        c3      == updateEffects(c2)
    IN  [c3 EXCEPT !.vel = newVel2,
                   !.worldPos = pos,
                   !.heading = apply(c3.xform, Vec(0, One)),
                   !.zeroNormalized = bounceNormalizesZero(c2.worldPos, newVel)]

----------------------------------------------------------------------------
(* Bounds of the model *)

MaxTicks == 5

MaxFlightTicks == 200

HoldTicks == 50

VelMax == 17

ThrustMax == 2

PosMax == 6

BounceVelMax == 2

VelStep == One \div 10 - 3

ThrustStep == ThrustScale \div 2

PosStep == One \div 2

BounceVelStep == One \div 2

Span(max, step) == { k * step : k \in -max..max }

Inputs == [A : BOOLEAN, left : BOOLEAN, right : BOOLEAN]

NoInput == [A |-> FALSE, left |-> FALSE, right |-> FALSE]

MaxShapes == 3

MaxLen == 3

\* shape objects; shape 1 is the Craft of line 224
Shapes == 1..MaxShapes

----------------------------------------------------------------------------
(* World.add and World.remove, on the world w = [shapes, sceneIndex] *)

\* Array.insertAt: v becomes the element at 0-based index i
insertAt(seq, i, v) == SubSeq(seq, 1, i) \o << v >> \o SubSeq(seq, i + 1, Len(seq))

\* Array.removeAt: drops the element at 0-based index i; no element is dropped when
\* i is not an index of the array
removeAt(seq, i) ==
    IF 0 <= i /\ i < Len(seq)
    THEN SubSeq(seq, 1, i) \o SubSeq(seq, i + 2, Len(seq))
    ELSE seq

world == [shapes |-> shapes, sceneIndex |-> sceneIndex]

worldAdd(w, s) ==
    LET idx == Len(w.shapes)
    IN  [shapes |-> insertAt(w.shapes, idx, s),
         sceneIndex |-> [w.sceneIndex EXCEPT ![s] = idx]]

\* remove with line 21 lost: the removed shape keeps its index
worldRemoveKeepsIndex(w, s) ==
    [shapes |-> removeAt(w.shapes, w.sceneIndex[s]),
     sceneIndex |-> w.sceneIndex]

worldRemove(w, s) ==
    [shapes |-> removeAt(w.shapes, w.sceneIndex[s]),
     sceneIndex |-> [w.sceneIndex EXCEPT ![s] = -1]]

Range(seq) == { seq[i] : i \in 1..Len(seq) }

\* the call just made, with the world it was made on, kept with the call before it
Logged(op, s) ==
    LET entry == [op |-> op, s |-> s, shapes |-> shapes, sceneIndex |-> sceneIndex]
    IN  IF calls = << >> THEN << entry >> ELSE << calls[Len(calls)], entry >>

----------------------------------------------------------------------------
(* The program after its top-level code (lines 36, 221-233): the world holds *)
(* the one Craft, shape 1, and no update has run                             *)

CraftIs(c) ==
    /\ worldPos = c.worldPos
    /\ vel = c.vel
    /\ thrust = c.thrust
    /\ heading = c.heading
    /\ xform = c.xform
    /\ thrusting = c.thrusting
    /\ beganThrusting = c.beganThrusting
    /\ stoppedThrusting = c.stoppedThrusting
    /\ renderPoints = c.renderPoints
    /\ startEffectCalls = c.startEffectCalls
    /\ clearParticlesCalls = c.clearParticlesCalls
    /\ zeroNormalized = c.zeroNormalized

WorldInit ==
    /\ shapes = << 1 >>
    /\ sceneIndex = [s \in Shapes |-> IF s = 1 THEN 0 ELSE -1]
    /\ calls = << >>

\* no callback running, none run yet
idleFrame ==
    [handler |-> "idle", last |-> "none", i |-> 0, invoked |-> << >>, passes |-> 0,
     worldCalls |-> 0]

NoSteering == [left |-> 0, rightOnly |-> 0]

CallInit ==
    /\ frame = idleFrame
    /\ pc = "done"
    /\ arg = [pos |-> Zero, vel |-> Zero]
    /\ ret = Zero

Init ==
    /\ WorldInit
    /\ CraftIs(newCraft)
    /\ controller = NoInput
    /\ ticks = 0
    /\ steerTicks = NoSteering
    /\ CallInit

\* one call of the Craft's update with the polled levels in
CraftStep(in) ==
    \E c \in {craftUpdate(self, in)} :
        /\ worldPos' = c.worldPos
        /\ vel' = c.vel
        /\ thrust' = c.thrust
        /\ heading' = c.heading
        /\ xform' = c.xform
        /\ thrusting' = c.thrusting
        /\ beganThrusting' = c.beganThrusting
        /\ stoppedThrusting' = c.stoppedThrusting
        /\ renderPoints' = c.renderPoints
        /\ startEffectCalls' = c.startEffectCalls
        /\ clearParticlesCalls' = c.clearParticlesCalls
        /\ zeroNormalized' = c.zeroNormalized
        /\ controller' = in
        /\ ticks' = ticks + 1
        /\ steerTicks' = [left |-> steerTicks.left + (IF in.left THEN 1 ELSE 0),
                          rightOnly |-> steerTicks.rightOnly
                                            + (IF in.right /\ ~in.left THEN 1 ELSE 0)]

\* game.onUpdate handler: world.update() runs the update of the one Craft in the world
Tick(in) ==
    /\ CraftStep(in)
    /\ UNCHANGED <<worldVars, callVars>>

OnUpdate ==
    /\ ticks < MaxTicks
    /\ \E in \in Inputs : Tick(in)

Next == OnUpdate

Spec == Init /\ [][Next]_vars

\* the same program with the player holding each button combination for HoldTicks updates
OnUpdateHeld ==
    /\ ticks < MaxFlightTicks
    /\ \E in \in Inputs :
          /\ (ticks % HoldTicks # 0) => (in = controller)
          /\ Tick(in)

NextFlight == OnUpdateHeld

SpecFlight == Init /\ [][NextFlight]_vars

----------------------------------------------------------------------------
(* Single calls of Craft.calcVelocity and Craft.bounceOffSides on a Craft   *)
(* whose fields, and the arguments, range over grids                        *)

InitCalc ==
    /\ WorldInit
    /\ \E v \in Span(VelMax, VelStep) \X Span(VelMax, VelStep),
          th \in Span(ThrustMax, ThrustStep) \X Span(ThrustMax, ThrustStep) :
          CraftIs([newCraft EXCEPT !.vel = Vec(v[1], v[2]), !.thrust = Vec(th[1], th[2])])
    /\ controller = NoInput
    /\ ticks = 0
    /\ steerTicks = NoSteering
    /\ frame = idleFrame
    /\ pc = "call"
    /\ arg = [pos |-> Zero, vel |-> Zero]
    /\ ret = Zero

CallCalcVelocity ==
    /\ pc = "call"
    /\ ret' = calcVelocity(vel, thrust)
    /\ pc' = "done"
    /\ UNCHANGED <<worldVars, craftVars, zeroNormalized, arg, frame>>

NextCalc == CallCalcVelocity

SpecCalc == InitCalc /\ [][NextCalc]_vars

Around(bound) ==
    {0} \cup { bound + o : o \in Span(PosMax, PosStep) }
        \cup { -bound + o : o \in Span(PosMax, PosStep) }

InitBounce ==
    /\ WorldInit
    /\ CraftIs(newCraft)
    /\ controller = NoInput
    /\ ticks = 0
    /\ steerTicks = NoSteering
    /\ frame = idleFrame
    /\ pc = "call"
    /\ \E px \in Around(BoundX), py \in Around(BoundY),
          v \in Span(BounceVelMax, BounceVelStep) \X Span(BounceVelMax, BounceVelStep) :
          arg = [pos |-> Vec(px, py), vel |-> Vec(v[1], v[2])]
    /\ ret = Zero

CallBounceOffSides ==
    /\ pc = "call"
    /\ ret' = bounceOffSides(arg.pos, arg.vel)
    /\ zeroNormalized' = bounceNormalizesZero(arg.pos, arg.vel)
    /\ pc' = "done"
    /\ UNCHANGED <<worldVars, craftVars, arg, frame>>

NextBounce == CallBounceOffSides

SpecBounce == InitBounce /\ [][NextBounce]_vars

----------------------------------------------------------------------------
(* The world under any sequence of add and remove calls.  A caller adds a   *)
(* shape that is in no scene (sceneIndex = -1, as the new Craft of line 224 *)
(* is) and may remove any shape; the array holds at most MaxLen elements.   *)

AddStep(s) ==
    /\ sceneIndex[s] = -1
    /\ Len(shapes) < MaxLen
    /\ \E w \in {worldAdd(world, s)} :
          /\ shapes' = w.shapes
          /\ sceneIndex' = w.sceneIndex
    /\ calls' = Logged("add", s)

Add(s) ==
    /\ AddStep(s)
    /\ UNCHANGED <<craftVars, zeroNormalized, callVars>>

RemoveStep(s) ==
    /\ \E w \in {worldRemove(world, s)} :
          /\ shapes' = w.shapes
          /\ sceneIndex' = w.sceneIndex
    /\ calls' = Logged("remove", s)

Remove(s) ==
    /\ RemoveStep(s)
    /\ UNCHANGED <<craftVars, zeroNormalized, callVars>>

NextWorld == \E s \in Shapes : Add(s) \/ Remove(s)

SpecWorld == Init /\ [][NextWorld]_vars

----------------------------------------------------------------------------
(* Claims about Craft.calcVelocity, under SpecCalc *)

\* rounding tolerance of a magnitude, in 1/One units
Tol == 2

\* vel + thrust + gravity, before the Y clamp and the magnitude cap
integrated == add(vel, add(thrust, gravity))

\* C1: for every velocity and thrust, the velocity calcVelocity returns has magnitude
\* at most maxAirSpeed, within rounding tolerance
C1_SpeedCapped ==
    pc = "done" => magSquared(ret) <= (maxAirSpeed + Tol) * (maxAirSpeed + Tol)

\* a call whose integrated velocity was over the cap and was rescaled
C1_Witness ==
    /\ pc = "done"
    /\ integrated.y >= maxDownSpeed
    /\ magSquared(integrated) > maxAirSpeedSq
    /\ ret # integrated

\* C2: for every velocity and thrust, the Y component of the velocity calcVelocity
\* returns is at least maxDownSpeed, also when the cap follows the clamp
C2_DownSpeedClamped == pc = "done" => ret.y >= maxDownSpeed

\* a call in which Y was clamped and the clamped vector was then capped
C2_Witness ==
    /\ pc = "done"
    /\ integrated.y < maxDownSpeed
    /\ magSquared([integrated EXCEPT !.y = maxDownSpeed]) > maxAirSpeedSq
    /\ ret.y >= maxDownSpeed

----------------------------------------------------------------------------
(* Claims about Craft.bounceOffSides, under SpecBounce *)

\* the predicted position pos + vel of the call
maybePos == add(arg.pos, arg.vel)

InsideX == -BoundX <= maybePos.x /\ maybePos.x <= BoundX

InsideY == -BoundY <= maybePos.y /\ maybePos.y <= BoundY

\* C8: the impulse X component is negative when the predicted X is over BoundX,
\* positive when it is under -BoundX and 0 when it is within; the same for Y with
\* BoundY; each axis on its own
C8_ImpulseDirection ==
    pc = "done" =>
        /\ maybePos.x > BoundX => ret.x < 0
        /\ maybePos.x < -BoundX => ret.x > 0
        /\ InsideX => ret.x = 0
        /\ maybePos.y > BoundY => ret.y < 0
        /\ maybePos.y < -BoundY => ret.y > 0
        /\ InsideY => ret.y = 0

\* a call whose prediction leaves on the right and at the bottom
C8_Witness ==
    /\ pc = "done"
    /\ maybePos.x > BoundX
    /\ maybePos.y < -BoundY
    /\ ret.x < 0
    /\ ret.y > 0

\* C9 (as claimed): when the predicted position is within both bounds, bounceOffSides
\* returns the zero vector and has not called normalize() on it
C9_ZeroImpulseNotNormalized ==
    (pc = "done" /\ InsideX /\ InsideY) => (ret = Zero /\ ~zeroNormalized)

\* C10: when at least one axis of the predicted position overflows, the impulse has
\* magnitude maxAirSpeed within rounding tolerance, whether one axis overflows or
\* both; predicted X = 80 with vel (1, 0) gives exactly (-0.8, 0)
C10_ImpulseMagnitude ==
    pc = "done" =>
        /\ ~(InsideX /\ InsideY) =>
              /\ magSquared(ret) >= (maxAirSpeed - Tol) * (maxAirSpeed - Tol)
              /\ magSquared(ret) <= (maxAirSpeed + Tol) * (maxAirSpeed + Tol)
        /\ (maybePos.x = 80 * One /\ arg.vel = Vec(One, 0) /\ InsideY) =>
              ret = Vec(-maxAirSpeed, 0)

\* a call whose prediction overflows on both axes: the two components share maxAirSpeed
C10_Witness ==
    /\ pc = "done"
    /\ maybePos.x > BoundX
    /\ maybePos.y > BoundY
    /\ ret.x = ret.y
    /\ ret.x < 0
    /\ ret.x > -maxAirSpeed

----------------------------------------------------------------------------
(* Claims about Craft.update *)

\* C3 (as claimed): after any sequence of updates the stored velocity has magnitude
\* at most maxAirSpeed, within rounding tolerance, and Y component at least maxDownSpeed
C3_StoredVelocityBounded ==
    /\ magSquared(vel) <= (maxAirSpeed + Tol) * (maxAirSpeed + Tol)
    /\ vel.y >= maxDownSpeed

\* C4: an update calls startEffect exactly once if the button is pressed in it and
\* the craft was not thrusting at its start, and otherwise not at all; it calls
\* clearParticles exactly once if the button is not pressed and the craft was
\* thrusting at its start, and otherwise not at all
C4_EffectsEdgeTriggered ==
    [][ticks' = ticks + 1 =>
          /\ startEffectCalls' =
                startEffectCalls + (IF controller'.A /\ ~thrusting THEN 1 ELSE 0)
          /\ clearParticlesCalls' =
                clearParticlesCalls + (IF ~controller'.A /\ thrusting THEN 1 ELSE 0)]_vars

\* the button held over several updates and then released over several: one call of each
C4_Witness ==
    /\ ticks >= 4
    /\ ~thrusting
    /\ ~controller.A
    /\ startEffectCalls = 1
    /\ clearParticlesCalls = 1

----------------------------------------------------------------------------
(* Claims about World.add and World.remove, under SpecWorld *)

lastCall == calls[Len(calls)]

\* C5 (as claimed): every shape in the collection has sceneIndex equal to its
\* position in it
C5_SceneIndexIsPosition ==
    \A i \in 1..Len(shapes) : sceneIndex[shapes[i]] = i - 1

\* C6 (as claimed): remove(s) of a shape that is in the collection removes exactly s:
\* afterwards s is not in the collection, its sceneIndex is -1 and the other shapes
\* are there in the same order
C6_RemoveRemovesExactly ==
    (calls # << >> /\ lastCall.op = "remove" /\ lastCall.s \in Range(lastCall.shapes)) =>
        /\ lastCall.s \notin Range(shapes)
        /\ sceneIndex[lastCall.s] = -1
        /\ shapes = SelectSeq(lastCall.shapes, LAMBDA t : t # lastCall.s)

----------------------------------------------------------------------------
(* Claims about the heading and the render point cache, under Spec *)

\* the screen-space vertices of the Craft under the transform xf and the position pos
screenPoints(xf, pos) ==
    [i \in 1..Len(points) |-> apply(toScreen, add(apply(xf, points[i]), pos))]

\* C11: in the initial state and after every update, heading is the current transform
\* xform, with the rotation composed in that update, applied to the forward vector (0, 1)
C11_HeadingFollowsXform == heading = apply(xform, Vec(0, One))

\* the craft steered in one direction on three updates: the heading has turned with it
C11_Witness ==
    /\ ticks >= 3
    /\ xform.rot = 3
    /\ heading = Vec(-Sin(3), Cos(3))

\* C13: after an update the cached render points are the screen transform of the
\* vertices under the worldPos and xform the craft had when the update started, and,
\* when the update moved or turned the craft, not those of the committed pose
C13_RenderLag ==
    [][ticks' = ticks + 1 =>
          /\ renderPoints' = screenPoints(xform, worldPos)
          /\ (worldPos' # worldPos /\ xform' = xform) =>
                renderPoints' # screenPoints(xform', worldPos')]_vars

\* an update has moved and turned the craft and the cache shows the pose before it
C13_Witness ==
    /\ ticks >= 2
    /\ xform.rot = 2
    /\ renderPoints = screenPoints(createRotationMatrix(1), sub(worldPos, vel))
    /\ renderPoints # screenPoints(xform, worldPos)

----------------------------------------------------------------------------
(* Claims about the thrust and the velocity over updates *)

ThrustOnly == [A |-> TRUE, left |-> FALSE, right |-> FALSE]

\* C15: from the program's start (worldPos, vel and thrust zero, heading (0, 1)), one
\* update with the thrust button held and no steering ends with vel = (0, 0.06) and
\* worldPos = (0, 0.06)
C15_FirstThrustTick ==
    (ticks = 1 /\ controller = ThrustOnly) =>
        /\ vel = Vec(0, 6 * (One \div 100))
        /\ worldPos = Vec(0, 6 * (One \div 100))

\* that update has run: the craft thrusts along (0, 1) and has started its effect
C15_Witness ==
    /\ ticks = 1
    /\ controller = ThrustOnly
    /\ thrust = Vec(0, ThrustScale)
    /\ thrusting
    /\ startEffectCalls = 1
    /\ vel = worldPos

\* the number of coasting updates from rest after which the speed reaches maxDownSpeed
CoastTicks == maxDownSpeed \div GravityY

\* C16: as long as the thrust button has never been pressed, after n <= 25 updates
\* from rest thrust is still exactly (0, 0) and vel = (0, -0.02 * n)
C16_CoastingFromRest ==
    (startEffectCalls = 0 /\ ticks <= CoastTicks) =>
        /\ thrust = Zero
        /\ vel = Vec(0, GravityY * ticks)

\* 25 updates with no button pressed: the craft falls at maxDownSpeed
C16_Witness ==
    /\ ticks = CoastTicks
    /\ controller = NoInput
    /\ xform = identity
    /\ startEffectCalls = 0
    /\ thrust = Zero
    /\ vel = Vec(0, maxDownSpeed)

\* C17: an update with the thrust button pressed sets thrust to 0.08 times the heading
\* held at its start and thrusting to true; an update with the button not pressed sets
\* thrust to 0.6 times its previous value, which leaves a nonzero thrust nonzero, and
\* thrusting to false
C17_ThrustRule ==
    [][ticks' = ticks + 1 =>
          IF controller'.A
          THEN /\ thrust' = scale(heading, ThrustScale)
               /\ thrusting'
          ELSE /\ thrust' = scale(thrust, ThrustDecay)
               /\ thrust # Zero => thrust' # Zero
               /\ ~thrusting']_vars

\* thrust applied on an update that also steered (along the heading before the turn),
\* then one update of decay
C17_Witness ==
    /\ ticks = 2
    /\ xform.rot # 0
    /\ heading # Vec(0, One)
    /\ ~thrusting
    /\ thrust = scale(Vec(0, ThrustScale), ThrustDecay)

\* C18: after any input sequence the transform is the pure rotation by 1.5 degrees
\* times (updates that polled right but not left) minus (updates that polled left),
\* one increment per update, and the input step, whatever the levels, leaves
\* worldPos and vel as they are.
C18_SteeringAccumulates ==
    /\ steerTicks.left + steerTicks.rightOnly <= ticks
    /\ xform = createRotationMatrix(steerTicks.rightOnly - steerTicks.left)
    /\ \A in \in Inputs :
          \E d \in {handleInput(self, in)} :
              /\ d.worldPos = worldPos
              /\ d.vel = vel

\* left and right were both down in the last of three updates, after two of right alone
C18_Witness ==
    /\ ticks = 3
    /\ controller.left /\ controller.right
    /\ steerTicks = [left |-> 1, rightOnly |-> 2]
    /\ xform.rot = 1

(* A plain Shape whose vertex sequence is any sequence, held in arg; its fields *)
(* xform, worldPos and renderPoints are the Shape fields the Craft inherits.      *)

MaxVertices == 5

Min(a, b) == IF a < b THEN a ELSE b

Vertices == Range(points)

VertexSeqs == UNION {[1..n -> Vertices] : n \in 1..MaxVertices}

\* the body of the loop of Shape.update for one vertex
renderPoint(xf, pos, v) == apply(toScreen, add(apply(xf, v), pos))

\* Shape.update on the vertex sequence pts: the loop runs i = 0..3 whatever the length
\* of pts; this.points[i] beyond the end is undefined and its transformation throws,
\* leaving the entries written so far
updateShape(pts, xf, pos) ==
    [renderPoints |-> [i \in 1..Min(4, Len(pts)) |-> renderPoint(xf, pos, pts[i])],
     threw        |-> Len(pts) < 4]

\* Shape.render: the lines j -> j+1 for j = 0..N-2 and N-1 -> 0; reading an entry of
\* the cache that was never written throws
renderShape(pts, cache) ==
    LET N     == Len(pts)
        lines == [j \in 1..N |-> <<j, IF j = N THEN 1 ELSE j + 1>>]
    IN  [threw |-> \E j \in 1..N : lines[j][1] > Len(cache) \/ lines[j][2] > Len(cache),
         drawn |-> IF N <= Len(cache)
                   THEN [j \in 1..N |-> <<cache[lines[j][1]], cache[lines[j][2]]>>]
                   ELSE << >>]

InitShape ==
    /\ WorldInit
    /\ CraftIs(newCraft)
    /\ zeroNormalized = FALSE
    /\ controller = NoInput
    /\ ticks = 0
    /\ steerTicks = NoSteering
    /\ frame = idleFrame
    /\ pc = "constructed"
    /\ arg \in VertexSeqs
    /\ ret = << >>

ShapeVars == <<vel, thrust, heading, thrusting, beganThrusting, stoppedThrusting,
               controller, startEffectCalls, clearParticlesCalls, zeroNormalized,
               ticks, steerTicks, frame, arg>>

\* the owner of the shape sets its public fields xform and worldPos
PlaceShape(k, pos) ==
    /\ pc \in {"constructed", "updated", "rendered"}
    /\ xform' = createRotationMatrix(k)
    /\ worldPos' = pos
    /\ pc' = "placed"
    /\ UNCHANGED <<worldVars, ShapeVars, renderPoints, ret>>

CallShapeUpdate ==
    /\ pc \in {"constructed", "placed"}
    /\ \E u \in {updateShape(arg, xform, worldPos)} :
          /\ renderPoints' = u.renderPoints
          /\ pc' = IF u.threw THEN "updateThrew" ELSE "updated"
    /\ UNCHANGED <<worldVars, ShapeVars, xform, worldPos, ret>>

CallShapeRender ==
    /\ pc = "updated"
    /\ \E r \in {renderShape(arg, renderPoints)} :
          /\ ret' = r.drawn
          /\ pc' = IF r.threw THEN "renderThrew" ELSE "rendered"
    /\ UNCHANGED <<worldVars, ShapeVars, xform, worldPos, renderPoints>>

NextShape ==
    \/ \E k \in {1, 60}, pos \in {Vec(One, -One), Vec(-3 * One, 2 * One)} : PlaceShape(k, pos)
    \/ CallShapeUpdate
    \/ CallShapeRender

SpecShape == InitShape /\ [][NextShape]_vars

\* C12: once update has been called on a shape of N vertices, it has returned, the
\* render-point cache has exactly N entries, entry i is the screen image of vertex i
\* under the shape's xform and worldPos, and render reads only written entries.
C12_UpdateProcessesEveryVertex ==
    (pc \in {"updated", "updateThrew", "rendered", "renderThrew"}) =>
        /\ pc # "updateThrew"
        /\ Len(renderPoints) = Len(arg)
        /\ \A i \in 1..Len(arg) : renderPoints[i] = renderPoint(xform, worldPos, arg[i])
        /\ pc # "renderThrew"

\* C19 (as claimed): remove(s) of a shape that is not in the collection leaves the
\* collection as it was and leaves the sceneIndex of every other shape as it was.
C19_RemoveAbsentChangesNothing ==
    (calls # << >> /\ lastCall.op = "remove" /\ lastCall.s \notin Range(lastCall.shapes)) =>
        /\ shapes = lastCall.shapes
        /\ \A t \in Shapes \ {lastCall.s} : sceneIndex[t] = lastCall.sceneIndex[t]

(* The frame loop: the scheduler runs the game.onUpdate and game.onPaint handlers  *)
(* one at a time, each to its end; World.update and World.render walk              *)
(* World.shapes one index per step. add and remove are called between handlers.    *)

MaxWorldCalls == 4

MaxPasses == 2

\* world.add(s) between two handler runs
FrameAdd(s) ==
    /\ frame.handler = "idle"
    /\ frame.worldCalls < MaxWorldCalls
    /\ AddStep(s)
    /\ frame' = [frame EXCEPT !.worldCalls = @ + 1, !.last = "none", !.invoked = << >>]
    /\ UNCHANGED <<craftVars, zeroNormalized, pc, arg, ret>>

\* world.remove(s) between two handler runs
FrameRemove(s) ==
    /\ frame.handler = "idle"
    /\ frame.worldCalls < MaxWorldCalls
    /\ RemoveStep(s)
    /\ frame' = [frame EXCEPT !.worldCalls = @ + 1, !.last = "none", !.invoked = << >>]
    /\ UNCHANGED <<craftVars, zeroNormalized, pc, arg, ret>>

\* the scheduler starts a handler: h = "update" is game.onUpdate entering
\* world.update(), h = "paint" is game.onPaint entering world.render(view)
StartHandler(h) ==
    /\ frame.handler = "idle"
    /\ frame.passes < MaxPasses
    /\ frame' = [frame EXCEPT !.handler = h, !.i = 0, !.invoked = << >>, !.passes = @ + 1]
    /\ UNCHANGED <<worldVars, craftVars, zeroNormalized, pc, arg, ret>>

\* World.update, one turn of the loop: this.shapes[i].update(); the Craft is shape 1,
\* the update of any other shape is recorded as invoked
UpdateShapeAt(in) ==
    /\ frame.handler = "update"
    /\ frame.i < Len(shapes)
    /\ frame' = [frame EXCEPT !.i = @ + 1, !.invoked = Append(@, shapes[frame.i + 1])]
    /\ IF shapes[frame.i + 1] = 1
       THEN CraftStep(in)
       ELSE UNCHANGED <<craftVars, zeroNormalized>>
    /\ UNCHANGED <<worldVars, pc, arg, ret>>

\* World.render, one turn of the loop: this.shapes[i].render(img)
RenderShapeAt ==
    /\ frame.handler = "paint"
    /\ frame.i < Len(shapes)
    /\ frame' = [frame EXCEPT !.i = @ + 1, !.invoked = Append(@, shapes[frame.i + 1])]
    /\ UNCHANGED <<worldVars, craftVars, zeroNormalized, pc, arg, ret>>

\* the loop condition i < this.shapes.length fails and the handler returns
EndHandler ==
    /\ frame.handler # "idle"
    /\ frame.i >= Len(shapes)
    /\ frame' = [frame EXCEPT !.handler = "idle", !.last = frame.handler]
    /\ UNCHANGED <<worldVars, craftVars, zeroNormalized, pc, arg, ret>>

NextFrame ==
    \/ \E s \in Shapes : FrameAdd(s)
    \/ \E s \in Shapes : FrameRemove(s)
    \/ \E h \in {"update", "paint"} : StartHandler(h)
    \/ \E in \in Inputs : UpdateShapeAt(in)
    \/ RenderShapeAt
    \/ EndHandler

SpecFrame == Init /\ [][NextFrame]_vars

\* how many times shape s was invoked by the pass
timesInvoked(s) == Cardinality({k \in 1..Len(frame.invoked) : frame.invoked[k] = s})

\* C14 (as claimed): when World.update or World.render has returned, the shapes it
\* invoked are the shapes of the collection in collection order, every shape of the
\* collection exactly once, and a pass only ever runs with no other pass under way.
C14_EachShapeOncePerPass ==
    (frame.handler = "idle" /\ frame.last # "none") =>
        /\ frame.invoked = shapes
        /\ \A s \in Range(shapes) : timesInvoked(s) = 1

(* Containment of the flight, under SpecFlight *)

\* the position Craft.update predicts before bouncing: worldPos + calcVelocity(),
\* the velocity computed from the thrust that handleInput has just set (th)
predictedPos(th) == add(worldPos, calcVelocity(vel, th))

====
